---- MODULE Spec2Model ----
(***************************************************************************)
(* Schedule execution core of WA-Schedular: the schedule store, the        *)
(* APScheduler job registry (job_manager.py), the executor                 *)
(* (executor.py), the gateway client (message_sender.py) and the schedule  *)
(* routes (routes/schedules.py).                                           *)
(*                                                                         *)
(* Timestamps are whole minutes, and the clock is observed every           *)
(* TickMinutes minutes.  datetime.isoformat() of UTC timestamps is order   *)
(* preserving, so the "$lt" string comparison of the claim filter is the   *)
(* integer comparison of the minute counts.                                *)
(***************************************************************************)
EXTENDS Integers, Sequences, FiniteSets, Bags, TLC

\* ------------------------------------------------------------------ bounds
MaxTime == 6
TickMinutes == 3
MaxSched == 1
MaxInv == 3
MaxRunning == 2
MaxFaults == 1
MaxCrashes == 1
MaxJobIds == 2
MaxSends == 1
MaxToggling == 2

\* ------------------------------------------------------- program constants
LeaseMinutes == 5
MaxRetries == 3
ToListLimit == 1000

\* None / BSON null in a timestamp field, and a key missing from the document
NULL == -1
ABSENT == -2
\* None in cron_expression, and in the error of a gateway result
NoCron == <<>>
NoError == <<>>
\* no request has been answered yet
NoReply == [op |-> "none", contact_id |-> "none", id |-> 0, status |-> 0]

\* ------------------------------------------------------------ input sets
EveryThree == <<"*/3", "*", "*", "*", "*">>
CronInputs == {EveryThree}
OnceTimes == {3}
Contacts == {"c1"}
\* inputs of the requests on the registry: a cron expression whose minute
\* field is out of range, a missing fire spec, an unknown contact
BadMinute == <<"61", "*", "*", "*", "*">>
RegCronInputs == {EveryThree, BadMinute, NoCron}
RegOnceTimes == {3, NULL}
RegContacts == {"c1", "c9"}
JobIds == 1..MaxJobIds
PushOutcomes == {"ok", "failed"}
\* texts are sequences of characters
Blocked == <<"B", "l", "o", "c", "k", "e", "d">>
NotOnWA == <<"N", "O", "T", " ", "O", "N", " ", "W", "H", "A", "T", "S", "A", "P", "P">>
Busy == <<"b", "u", "s", "y">>
TimedOut == <<"t", "i", "m", "e", "d", " ", "o", "u", "t">>

\* what one POST /send can bring: a JSON body, or an exception of the http
\* client or of response.json()
Sent == [kind |-> "json", success |-> TRUE, error_key |-> "absent", error |-> <<>>]
Rejected(text) == [kind |-> "json", success |-> FALSE, error_key |-> "text", error |-> text]
NullReason == [kind |-> "json", success |-> FALSE, error_key |-> "null", error |-> <<>>]
Raised(text) == [kind |-> "raise", success |-> FALSE, error_key |-> "absent", error |-> text]

\* the answers a request to send now can meet, one per attempt
Responses ==
    { Sent, Rejected(Busy), Rejected(NotOnWA), NullReason, Raised(Blocked) }
SendNowRuns == [1..3 -> Responses]

GatewayRuns ==
    { <<Sent, Sent, Sent>>,
      <<Rejected(Busy), Raised(TimedOut), Sent>>,
      <<Rejected(Busy), Rejected(Busy), Rejected(Busy)>> }

VARIABLES now, up, running, stopping, schedules, created, jobs, inv, started,
          logs, faults, crashes, reply, client, db, reachable, toggling

vars == <<now, up, running, stopping, schedules, created, jobs, inv, started,
          logs, faults, crashes, reply, client, db, reachable, toggling>>

\* ------------------------------------------------------- gateway client
\* str.lower() on the characters the inputs use
UpperCase == <<"A", "B", "C", "D", "E", "F", "G", "H", "I", "J", "K", "L", "M",
               "N", "O", "P", "Q", "R", "S", "T", "U", "V", "W", "X", "Y", "Z">>
LowerCase == <<"a", "b", "c", "d", "e", "f", "g", "h", "i", "j", "k", "l", "m",
               "n", "o", "p", "q", "r", "s", "t", "u", "v", "w", "x", "y", "z">>

ToLower(c) ==
    IF \E k \in DOMAIN UpperCase : UpperCase[k] = c
    THEN LowerCase[CHOOSE k \in DOMAIN UpperCase : UpperCase[k] = c]
    ELSE c

Lower(text) == [k \in DOMAIN text |-> ToLower(text[k])]

\* pattern in text
Contains(text, pattern) ==
    \E k \in 1..(Len(text) - Len(pattern) + 1) :
        SubSeq(text, k, k + Len(pattern) - 1) = pattern

\* lines 36-41
permanent_failures ==
    { <<"n", "o", "t", " ", "r", "e", "g", "i", "s", "t", "e", "r", "e", "d">>,
      <<"i", "n", "v", "a", "l", "i", "d", " ", "n", "u", "m", "b", "e", "r">>,
      <<"n", "o", "t", " ", "o", "n", " ", "w", "h", "a", "t", "s", "a", "p", "p">>,
      <<"b", "l", "o", "c", "k", "e", "d">> }

\* a match that does not fold the case
IsPermanent_CaseSensitive(last_error) ==
    \E pf \in permanent_failures : Contains(last_error, pf)

\* line 42
IsPermanent(last_error) ==
    \E pf \in permanent_failures : Contains(Lower(last_error), pf)

\* the default of result.get('error', 'Unknown error')
UnknownError == <<"U", "n", "k", "n", "o", "w", "n", " ", "e", "r", "r", "o", "r">>
\* str(e) of the AttributeError that None.lower() raises at line 42
NoneHasNoLower == <<"'NoneType' object has no attribute 'lower'">>
Digits == <<"1", "2", "3", "4", "5", "6", "7", "8", "9">>

\* a message that leaves out the last error
FailedAfter_NoLastError(max_retries, last_error) ==
    <<"Failed after ", Digits[max_retries], " attempts">>

\* line 56: f"Failed after {max_retries} attempts: {last_error}"
FailedAfter(max_retries, last_error) ==
    <<"Failed after ", Digits[max_retries], " attempts: ">> \o last_error

\* last_error after an attempt that did not return: line 33 (and line 47
\* when line 42 raises on None), or line 47
LastError(response) ==
    IF response.kind = "raise" THEN response.error
    ELSE IF response.error_key = "absent" THEN UnknownError
    ELSE IF response.error_key = "null" THEN NoneHasNoLower
    ELSE response.error

\* the attempt returns the gateway's body: lines 28-31 and 42-44
ReturnsBody(response) ==
    /\ response.kind = "json"
    /\ \/ response.success
       \/ response.error_key = "text" /\ IsPermanent(response.error)
       \/ response.error_key = "absent" /\ IsPermanent(UnknownError)

\* a loop that sleeps one second before every retry
Backoff_Constant(attempt) == 1

\* line 51
Backoff(attempt) == 2 ^ attempt

\* line 19: range(max_retries) is exhausted
LoopDone(attempt) == attempt >= MaxRetries

\* send_whatsapp_message: one loop iteration per attempt (0-based), the
\* gateway's answer to attempt a being responses[a+1]; attempts and delays
\* record the POSTs made and the sleeps taken
RECURSIVE SendLoop(_, _, _, _)
SendLoop(responses, attempt, last_error, delays) ==
    IF LoopDone(attempt)
    THEN [success |-> FALSE, error |-> FailedAfter(MaxRetries, last_error),
          attempts |-> attempt, delays |-> delays]
    ELSE LET response == responses[attempt + 1] IN
         IF ReturnsBody(response)
         THEN [success |-> response.success,
               error |-> IF response.error_key = "text" THEN response.error ELSE NoError,
               attempts |-> attempt + 1, delays |-> delays]
         ELSE IF attempt < MaxRetries - 1
         THEN SendLoop(responses, attempt + 1, LastError(response),
                       Append(delays, Backoff(attempt)))
         ELSE SendLoop(responses, attempt + 1, LastError(response), delays)

send_whatsapp_message(responses) == SendLoop(responses, 0, NoError, <<>>)

\* the dict send_whatsapp_message returns: {"success": ..., "error": ...}
GatewayResult(r) == [success |-> r.success, error |-> r.error]

NoResult == [success |-> FALSE, error |-> NoError]

\* the error texts the gateway client can hand to the executor
ErrorMessages == {GatewayResult(send_whatsapp_message(run)).error : run \in GatewayRuns}

\* ------------------------------------------------------------- triggers
\* CronTrigger.from_crontab: five fields, each in range.
WellFormed(cron) ==
    /\ Len(cron) = 5
    /\ cron[1] \in {"*", "*/3"}

\* minutes between two occurrences of a well-formed rule
CronPeriod(cron) == IF cron[1] = "*" THEN 1 ELSE 3

\* CronTrigger.get_next_fire_time: the first occurrence strictly after minute t
CronNext(cron, t) == ((t \div CronPeriod(cron)) + 1) * CronPeriod(cron)

\* scheduler.add_job(..., id=schedule_id, replace_existing=True)
\* an add_job that keeps the registration it finds
AddJob_KeepExisting(J, sid, job) ==
    IF sid \in DOMAIN J THEN J
    ELSE [s \in DOMAIN J \cup {sid} |-> IF s = sid THEN job ELSE J[s]]

AddJob(J, sid, job) == [s \in DOMAIN J \cup {sid} |-> IF s = sid THEN job ELSE J[s]]

\* scheduler.remove_job inside try/except: absent id is a no-op
\* a removal that resets the registry when the id is unknown
remove_schedule_job_Reset(J, sid) ==
    IF sid \in DOMAIN J THEN [s \in DOMAIN J \ {sid} |-> J[s]] ELSE <<>>

remove_schedule_job(J, sid) == [s \in DOMAIN J \ {sid} |-> J[s]]

add_schedule_job(J, sid, stype, scheduled_time, cron, t) ==
    IF stype = "once" /\ scheduled_time # NULL
    THEN AddJob(J, sid, [kind |-> "date", next |-> scheduled_time, cron |-> NoCron])
    ELSE IF stype = "recurring" /\ cron # NoCron
    THEN IF WellFormed(cron)
         THEN AddJob(J, sid, [kind |-> "cron", next |-> CronNext(cron, t), cron |-> cron])
         ELSE J
    ELSE J

\* ---------------------------------------------------------------- store
NewSchedule(contact_id, stype, scheduled_time, cron) ==
    [contact_id |-> contact_id, message |-> "Hi", schedule_type |-> stype,
     scheduled_time |-> scheduled_time, cron_expression |-> cron,
     is_active |-> TRUE, last_run |-> NULL, executing |-> ABSENT,
     completed_at |-> ABSENT]

\* a filter for which a lease never expires
ClaimFilter_NoExpiry(doc, t) ==
    /\ doc.is_active
    /\ \/ doc.executing = ABSENT
       \/ doc.executing = NULL

\* a filter for which a lease expires at the boundary
ClaimFilter_Inclusive(doc, t) ==
    /\ doc.is_active
    /\ \/ doc.executing = ABSENT
       \/ doc.executing = NULL
       \/ doc.executing \notin {ABSENT, NULL} /\ doc.executing <= t - LeaseMinutes

\* a filter that takes any earlier lease for expired
ClaimFilter_NoWindow(doc, t) ==
    /\ doc.is_active
    /\ \/ doc.executing = ABSENT
       \/ doc.executing = NULL
       \/ doc.executing \notin {ABSENT, NULL} /\ doc.executing < t

\* the filter of the claim's find_one_and_update
ClaimFilter(doc, t) ==
    /\ doc.is_active
    /\ \/ doc.executing = ABSENT
       \/ doc.executing = NULL
       \/ doc.executing \notin {ABSENT, NULL} /\ doc.executing < t - LeaseMinutes

\* ------------------------------------------------- core/database.py
\* the module globals client and db: None, or the Motor client and the
\* database handle taken from it
NoClient == "None"
MotorClient == "AsyncIOMotorClient"
NoDb == "None"
Database == "Database"

\* init_database, lines 28-53, with the store reachable or not: the client
\* is assigned at line 33, before the ping of line 34 can raise
init_database(c, d, ok) ==
    IF ok
    THEN [client |-> MotorClient, db |-> Database, returns |-> TRUE]
    ELSE [client |-> MotorClient, db |-> d, returns |-> FALSE]

\* get_database, lines 13-26: a connection is attempted only while client
\* is None; status 503 is the HTTPException of line 25
get_database(c, d, ok) ==
    IF c = NoClient
    THEN IF ok
         THEN [client |-> MotorClient, db |-> Database, status |-> 200,
               returns |-> Database]
         ELSE [client |-> MotorClient, db |-> d, status |-> 503, returns |-> NoDb]
    ELSE [client |-> c, db |-> d, status |-> 200, returns |-> d]

Ids == 1..MaxSched
Stored == DOMAIN schedules
InvIds == DOMAIN inv

\* invocation i is between its successful claim and its release
Holding(i) ==
    /\ inv[i].claim = "won"
    /\ inv[i].pc \in {"send", "log", "update", "cleanup"}

Init ==
    /\ now = 0
    /\ up = TRUE
    /\ running = TRUE
    /\ stopping = FALSE
    /\ schedules = <<>>
    /\ created = 0
    /\ jobs = <<>>
    /\ inv = <<>>
    /\ started = 0
    /\ logs = EmptyBag
    /\ faults = 0
    /\ crashes = 0
    /\ reply = NoReply
    /\ toggling = <<>>
    /\ reachable = TRUE
    /\ client = init_database(NoClient, NoDb, reachable).client
    /\ db = init_database(NoClient, NoDb, reachable).db

\* ------------------------------------------------------------- routes
\* a lookup that finds every contact
ContactFound_Any(contact_id) == TRUE

\* database.contacts.find_one({"id": contact_id})
ContactFound(contact_id) == contact_id \in Contacts

\* POST /schedules: 404 for an unknown contact; otherwise the record is
\* inserted, add_schedule_job is called and its result is ignored
create_schedule(contact_id, stype, scheduled_time, cron) ==
    /\ up
    /\ created < MaxSched
    /\ IF ~ContactFound(contact_id)
       THEN /\ reply' = [op |-> "create", contact_id |-> contact_id,
                         id |-> 0, status |-> 404]
            /\ UNCHANGED <<schedules, created, jobs>>
       ELSE LET sid == created + 1 IN
            /\ created' = sid
            /\ schedules' = [s \in Stored \cup {sid} |->
                               IF s = sid
                               THEN NewSchedule(contact_id, stype, scheduled_time, cron)
                               ELSE schedules[s]]
            /\ jobs' = add_schedule_job(jobs, sid, stype, scheduled_time, cron, now)
            /\ reply' = [op |-> "create", contact_id |-> contact_id,
                         id |-> sid, status |-> 200]
    /\ UNCHANGED <<now, up, running, stopping, client, db, reachable, toggling, inv, started, logs, faults, crashes>>

toggle_schedule(sid) ==
    /\ up
    /\ sid \in Stored
    /\ LET doc == schedules[sid]
           new_status == ~doc.is_active
       IN /\ schedules' = [schedules EXCEPT ![sid].is_active = new_status]
          /\ jobs' = IF new_status
                     THEN add_schedule_job(jobs, sid, doc.schedule_type,
                                           doc.scheduled_time, doc.cron_expression, now)
                     ELSE remove_schedule_job(jobs, sid)
    /\ UNCHANGED <<now, up, running, stopping, client, db, reachable, toggling, created, inv, started, logs, faults, crashes, reply>>

\* a delete that only deactivates the record
DeleteOne_Deactivate(S, sid) == [S EXCEPT ![sid].is_active = FALSE]

\* database.schedules.delete_one({"id": schedule_id})
DeleteOne(S, sid) == [s \in DOMAIN S \ {sid} |-> S[s]]

\* DELETE /schedules/{id}, lines 97-106: 404 when nothing was deleted,
\* otherwise the registration is removed too
delete_schedule(sid) ==
    /\ up
    /\ IF sid \notin Stored
       THEN /\ reply' = [op |-> "delete", contact_id |-> "none", id |-> sid,
                         status |-> 404]
            /\ UNCHANGED <<schedules, jobs>>
       ELSE /\ schedules' = DeleteOne(schedules, sid)
            /\ jobs' = remove_schedule_job(jobs, sid)
            /\ reply' = [op |-> "delete", contact_id |-> "none", id |-> sid,
                         status |-> 200]
    /\ UNCHANGED <<now, up, running, stopping, client, db, reachable, toggling, created, inv, started, logs, faults, crashes>>

\* an invocation that starts at the send step
NewInvocation_NoClaim(sid, src) ==
    [sid |-> sid, src |-> src, pc |-> "send", now |-> NULL, claim |-> "none",
     stype |-> "none", res |-> NoResult, logged |-> 0, raced |-> FALSE]

\* the locals of a new invocation of execute_scheduled_message(sid), and what
\* is remembered about it: src is who started it (the job scheduler or a
\* route), claim is the outcome of its claim step, logged the
\* number of MessageLog entries it has inserted, raced whether another
\* invocation of the schedule called the gateway while this one was started
\* and had not yet called it itself
NewInvocation(sid, src) ==
    [sid |-> sid, src |-> src, pc |-> "claim", now |-> NULL, claim |-> "none",
     stype |-> "none", res |-> NoResult, logged |-> 0, raced |-> FALSE]

\* the coroutine of invocation i has returned
Return(i) == [j \in InvIds \ {i} |-> inv[j]]

StartInvocation(sid, src) ==
    /\ started < MaxInv
    /\ Cardinality(InvIds) < MaxRunning
    /\ started' = started + 1
    /\ inv' = [j \in InvIds \cup {started + 1} |->
                 IF j = started + 1 THEN NewInvocation(sid, src) ELSE inv[j]]

\* a lookup that finds every schedule
ScheduleFound_Any(sid) == TRUE

\* database.schedules.find_one({"id": schedule_id}) of the test run
ScheduleFound(sid) == sid \in Stored

\* the body test_run_schedule returns once the executor has returned
TestRunReply(sid) ==
    [op |-> "test-run", contact_id |-> "none", id |-> sid, status |-> 200,
     result |-> [success |-> TRUE, error |-> NoError]]

\* fastapi's answer to a request whose handler raised
ServerError(sid) ==
    [op |-> "test-run", contact_id |-> "none", id |-> sid, status |-> 500]

\* what the caller of invocation i receives when the invocation ends, by
\* returning or by raising: the job scheduler has nobody to answer
Answer(i, outcome) ==
    IF inv[i].src = "route"
    THEN IF outcome = "returned" THEN TestRunReply(inv[i].sid)
         ELSE ServerError(inv[i].sid)
    ELSE reply

\* POST /schedules/test-run/{id}, lines 152-173: 404 without calling the
\* executor, otherwise the executor is awaited
test_run_schedule(sid) ==
    /\ up
    /\ IF ~ScheduleFound(sid)
       THEN /\ reply' = [op |-> "test-run", contact_id |-> "none", id |-> sid,
                         status |-> 404]
            /\ UNCHANGED <<inv, started>>
       ELSE /\ StartInvocation(sid, "route")
            /\ UNCHANGED reply
    /\ UNCHANGED <<now, up, running, stopping, client, db, reachable, toggling, schedules, created, jobs, logs, faults, crashes>>

\* ------------------------------------------------------- job scheduler
\* APScheduler after submitting a run: a date job is exhausted and removed,
\* a cron job is re-armed for its next occurrence.
\* a scheduler that drops every job after its run
AfterRun_Exhaust(J, sid) == [s \in DOMAIN J \ {sid} |-> J[s]]

AfterRun(J, sid) ==
    IF J[sid].kind = "date"
    THEN remove_schedule_job(J, sid)
    ELSE [J EXCEPT ![sid].next = CronNext(J[sid].cron, now)]

\* a run of job sid submitted by the job scheduler is still going on
InstanceRunning(sid) ==
    \E j \in InvIds : inv[j].sid = sid /\ inv[j].src = "trigger"

\* the trigger of sid fires on time and the executor is invoked.  A fire that
\* finds an earlier run of the job still going on is skipped by APScheduler
\* (max_instances = 1, SkipJob).
FireJob(sid) ==
    /\ up
    /\ running
    /\ sid \in DOMAIN jobs
    /\ jobs[sid].next = now
    /\ ~InstanceRunning(sid)
    /\ StartInvocation(sid, "trigger")
    /\ jobs' = AfterRun(jobs, sid)
    /\ UNCHANGED <<now, up, running, stopping, client, db, reachable, toggling, schedules, created, logs, faults, crashes, reply>>

\* the run is skipped: run time missed by more than misfire_grace_time, or
\* the maximum number of running instances is reached
SkipJob(sid) ==
    /\ up
    /\ running
    /\ sid \in DOMAIN jobs
    /\ jobs[sid].next <= now
    /\ jobs' = AfterRun(jobs, sid)
    /\ UNCHANGED <<now, up, running, stopping, client, db, reachable, toggling, schedules, created, inv, started, logs, faults, crashes, reply>>

\* a minute passes; a running scheduler has processed every due job
Tick ==
    /\ now + TickMinutes <= MaxTime
    /\ running => \A s \in DOMAIN jobs : jobs[s].next > now
    /\ now' = now + TickMinutes
    /\ UNCHANGED <<up, running, stopping, client, db, reachable, toggling, schedules, created, jobs, inv, started, logs, faults, crashes, reply>>

\* one minute passes; a running scheduler has processed every due job
Minute ==
    /\ now < MaxTime
    /\ running => \A s \in DOMAIN jobs : jobs[s].next > now
    /\ now' = now + 1
    /\ UNCHANGED <<up, running, stopping, client, db, reachable, toggling, schedules, created, jobs, inv, started, logs,
                   faults, crashes, reply>>

\* ------------------------------------------------------------- executor
CanFault == faults < MaxFaults
\* the store that failed a step of the try block can fail the write of the
\* error handler as well
CanFaultAgain == faults <= MaxFaults

\* STEP 1, lines 20-49
Claim(i) ==
    /\ up
    /\ i \in InvIds
    /\ inv[i].pc = "claim"
    /\ LET sid == inv[i].sid IN
       \/ \* get_database or find_one_and_update raises
          /\ CanFault
          /\ faults' = faults + 1
          /\ inv' = [inv EXCEPT ![i].pc = "cleanup", ![i].claim = "error",
                                ![i].raced = FALSE]
          /\ UNCHANGED schedules
       \/ \* the filter matches: the lease is taken
          /\ sid \in Stored
          /\ ClaimFilter(schedules[sid], now)
          /\ schedules' = [schedules EXCEPT ![sid].executing = now]
          /\ inv' = [inv EXCEPT ![i].pc = "send", ![i].claim = "won",
                                ![i].now = now,
                                ![i].stype = schedules[sid].schedule_type]
          /\ UNCHANGED faults
       \/ \* no match; the find_one of line 42 answers; return
          /\ ~(sid \in Stored /\ ClaimFilter(schedules[sid], now))
          /\ inv' = Return(i)
          /\ UNCHANGED <<schedules, faults>>
       \/ \* no match; the find_one of line 42 raises
          /\ ~(sid \in Stored /\ ClaimFilter(schedules[sid], now))
          /\ CanFault
          /\ faults' = faults + 1
          /\ inv' = [inv EXCEPT ![i].pc = "cleanup", ![i].claim = "lost",
                                ![i].now = now, ![i].raced = FALSE]
          /\ UNCHANGED schedules
    /\ reply' = IF i \in DOMAIN inv' THEN reply ELSE Answer(i, "returned")
    /\ UNCHANGED <<now, up, running, stopping, client, db, reachable, toggling, created, jobs, started, logs, crashes>>

\* STEP 2, line 58
Send(i) ==
    /\ up
    /\ i \in InvIds
    /\ inv[i].pc = "send"
    /\ \E run \in GatewayRuns :
         inv' = [j \in InvIds |->
                   IF j = i
                   THEN [inv[i] EXCEPT !.pc = "log", !.raced = FALSE,
                                       !.res = GatewayResult(send_whatsapp_message(run))]
                   ELSE IF inv[j].sid = inv[i].sid /\ inv[j].pc = "claim"
                   THEN [inv[j] EXCEPT !.raced = TRUE]
                   ELSE inv[j]]
    /\ UNCHANGED <<now, up, running, stopping, client, db, reachable, toggling, schedules, created, jobs, started, logs, faults, crashes, reply>>

\* an insert that replaces what the collection holds
AppendLog_Replace(L, doc) == SetToBag({doc})

\* database.logs.insert_one(log_doc)
AppendLog(L, doc) == L (+) SetToBag({doc})

\* a log document whose status ignores the gateway's answer
LogDoc_AlwaysSent(i) ==
    [scheduled_message_id |-> inv[i].sid,
     status |-> "sent",
     error_message |-> inv[i].res.error]

\* the MessageLog document of lines 68-78
LogDoc(i) ==
    [scheduled_message_id |-> inv[i].sid,
     status |-> IF inv[i].res.success THEN "sent" ELSE "failed",
     error_message |-> inv[i].res.error]

\* STEP 3, lines 67-79
Log(i) ==
    /\ up
    /\ i \in InvIds
    /\ inv[i].pc = "log"
    /\ \/ /\ logs' = AppendLog(logs, LogDoc(i))
          /\ inv' = [inv EXCEPT ![i].pc = "update", ![i].res = NoResult,
                                ![i].logged = inv[i].logged + 1]
          /\ UNCHANGED faults
       \/ \* insert_one raises
          /\ CanFault
          /\ faults' = faults + 1
          /\ inv' = [inv EXCEPT ![i].pc = "cleanup", ![i].res = NoResult]
          /\ UNCHANGED logs
    /\ UNCHANGED <<now, up, running, stopping, client, db, reachable, toggling, schedules, created, jobs, started, crashes, reply>>

\* an update that forgets to release the lease
UpdateFields_KeepLease(doc, i) ==
    IF inv[i].stype = "once"
    THEN [doc EXCEPT !.last_run = inv[i].now,
                     !.is_active = FALSE, !.completed_at = inv[i].now]
    ELSE [doc EXCEPT !.last_run = inv[i].now]

\* an update that writes the document back as the claim returned it, so
\* that is_active is what the filter of the claim required
UpdateFields_WriteBack(doc, i) ==
    IF inv[i].stype = "once"
    THEN [doc EXCEPT !.last_run = inv[i].now, !.executing = NULL,
                     !.is_active = FALSE, !.completed_at = inv[i].now]
    ELSE [doc EXCEPT !.last_run = inv[i].now, !.executing = NULL,
                     !.is_active = TRUE]

\* an update that leaves a one-time schedule active
UpdateFields_KeepActive(doc, i) ==
    [doc EXCEPT !.last_run = inv[i].now, !.executing = NULL]

\* update_fields of lines 82-91 applied by "$set"
UpdateFields(doc, i) ==
    IF inv[i].stype = "once"
    THEN [doc EXCEPT !.last_run = inv[i].now, !.executing = NULL,
                     !.is_active = FALSE, !.completed_at = inv[i].now]
    ELSE [doc EXCEPT !.last_run = inv[i].now, !.executing = NULL]

\* STEP 4, lines 81-96
Update(i) ==
    /\ up
    /\ i \in InvIds
    /\ inv[i].pc = "update"
    /\ LET sid == inv[i].sid IN
       \/ /\ schedules' = IF sid \in Stored
                          THEN [schedules EXCEPT ![sid] = UpdateFields(schedules[sid], i)]
                          ELSE schedules
          /\ inv' = [inv EXCEPT ![i].pc = "notify"]
          /\ UNCHANGED faults
       \/ \* update_one raises
          /\ CanFault
          /\ faults' = faults + 1
          /\ inv' = [inv EXCEPT ![i].pc = "cleanup"]
          /\ UNCHANGED schedules
    /\ UNCHANGED <<now, up, running, stopping, client, db, reachable, toggling, created, jobs, started, logs, crashes, reply>>

\* an executor to which a failed push is an error of the run
Notified_Raises(i, push) ==
    IF push = "failed"
    THEN [inv EXCEPT ![i].pc = "cleanup"]
    ELSE Return(i)

\* send_telegram_notification returns, whatever the push did, and the
\* invocation leaves the try block
Notified(i, push) == Return(i)

\* STEP 5, lines 98-103: send_telegram_notification swallows every error; a
\* failed push counts among the failures of external services
Notify(i) ==
    /\ up
    /\ i \in InvIds
    /\ inv[i].pc = "notify"
    /\ \E push \in PushOutcomes :
         /\ inv' = Notified(i, push)
         /\ IF push = "failed"
            THEN CanFault /\ faults' = faults + 1
            ELSE UNCHANGED faults
    /\ reply' = IF i \in DOMAIN inv' THEN reply ELSE Answer(i, "returned")
    /\ UNCHANGED <<now, up, running, stopping, client, db, reachable, toggling, schedules, created, jobs, started, logs, crashes>>

\* an error handler that writes nothing
CleanupFields_None(doc) == doc

\* the "$set" of the error handler, lines 111-114
CleanupFields(doc) == [doc EXCEPT !.executing = NULL]

\* a handler that lets the error of its own write through
HandlerOutcome_Reraise(write) == IF write = "raised" THEN "raised" ELSE "returned"

\* lines 109-116: the write of the handler is in a try block of its own
\* whose except branch is "pass"
HandlerOutcome(write) == "returned"

\* except branch, lines 105-116
Cleanup(i) ==
    /\ up
    /\ i \in InvIds
    /\ inv[i].pc = "cleanup"
    /\ LET sid == inv[i].sid IN
       \/ /\ schedules' = IF sid \in Stored
                          THEN [schedules EXCEPT ![sid] = CleanupFields(schedules[sid])]
                          ELSE schedules
          /\ reply' = Answer(i, HandlerOutcome("ok"))
          /\ UNCHANGED faults
       \/ \* the cleanup write raises too: swallowed
          /\ CanFaultAgain
          /\ faults' = faults + 1
          /\ reply' = Answer(i, HandlerOutcome("raised"))
          /\ UNCHANGED schedules
    /\ inv' = Return(i)
    /\ UNCHANGED <<now, up, running, stopping, client, db, reachable, toggling, created, jobs, started, logs, crashes>>

\* ------------------------------------------------------ process lifecycle
\* a reload that registers every one-time schedule, lapsed or not
ReloadOne_NoPastCheck(J, sid, doc, t) ==
    IF doc.schedule_type = "once" /\ doc.scheduled_time # NULL
    THEN add_schedule_job(J, sid, "once", doc.scheduled_time, NoCron, t)
    ELSE IF doc.schedule_type = "recurring" /\ doc.cron_expression # NoCron
    THEN add_schedule_job(J, sid, "recurring", NULL, doc.cron_expression, t)
    ELSE J

\* a reload that re-arms a one-time schedule whose time has come
ReloadOne_ReArmDue(J, sid, doc, t) ==
    IF doc.schedule_type = "once" /\ doc.scheduled_time # NULL
    THEN IF doc.scheduled_time >= t
         THEN add_schedule_job(J, sid, "once", doc.scheduled_time, NoCron, t)
         ELSE J
    ELSE IF doc.schedule_type = "recurring" /\ doc.cron_expression # NoCron
    THEN add_schedule_job(J, sid, "recurring", NULL, doc.cron_expression, t)
    ELSE J

\* one schedule of the reload loop, lines 62-96
ReloadOne(J, sid, doc, t) ==
    IF doc.schedule_type = "once" /\ doc.scheduled_time # NULL
    THEN IF doc.scheduled_time > t
         THEN add_schedule_job(J, sid, "once", doc.scheduled_time, NoCron, t)
         ELSE J
    ELSE IF doc.schedule_type = "recurring" /\ doc.cron_expression # NoCron
    THEN add_schedule_job(J, sid, "recurring", NULL, doc.cron_expression, t)
    ELSE J

RECURSIVE ReloadLoop(_, _, _, _)
ReloadLoop(J, todo, S, t) ==
    IF todo = {} THEN J
    ELSE LET sid == CHOOSE s \in todo : \A o \in todo : s <= o
         IN ReloadLoop(ReloadOne(J, sid, S[sid], t), todo \ {sid}, S, t)

\* a reload that goes through the inactive schedules too
reload_schedules_All(J, S, t) == ReloadLoop(J, DOMAIN S, S, t)

\* reload_schedules on the job registry J: the first ToListLimit active
\* schedules are read
reload_schedules(J, S, t) ==
    LET active == {s \in DOMAIN S : S[s].is_active}
        listed == {s \in active :
                     Cardinality({o \in active : o < s}) < ToListLimit}
    IN ReloadLoop(J, listed, S, t)

\* the schedule adds one to "loaded", lines 67-90
CountsAsLoaded(doc, t) ==
    \/ /\ doc.schedule_type = "once" /\ doc.scheduled_time # NULL
       /\ doc.scheduled_time > t
    \/ /\ ~(doc.schedule_type = "once" /\ doc.scheduled_time # NULL)
       /\ doc.schedule_type = "recurring" /\ doc.cron_expression # NoCron

\* the value reload_schedules returns when the store answers, line 100
reload_result(S, t) ==
    Cardinality({s \in DOMAIN S : S[s].is_active /\ CountsAsLoaded(S[s], t)})

\* the process dies: the in-memory registry and the running coroutines are lost
Crash ==
    /\ up
    /\ crashes < MaxCrashes
    /\ crashes' = crashes + 1
    /\ up' = FALSE
    /\ running' = FALSE
    /\ stopping' = FALSE
    /\ jobs' = <<>>
    /\ inv' = <<>>
    /\ client' = NoClient
    /\ db' = NoDb
    /\ toggling' = <<>>
    /\ UNCHANGED <<now, schedules, created, started, logs, faults, reply, reachable>>

\* core/scheduler.py, lines 7-10
start_scheduler(r) == TRUE

\* startup handler of server.py: init_database, start_scheduler, then
\* reload_schedules, which returns 0 when get_database raises or returns None
Startup ==
    /\ ~up
    /\ up' = TRUE
    /\ running' = start_scheduler(running)
    /\ stopping' = FALSE
    /\ LET opened == init_database(client, db, reachable)
           got == get_database(opened.client, opened.db, reachable)
       IN /\ client' = got.client
          /\ db' = got.db
          /\ \/ /\ got.returns # NoDb
                /\ jobs' = reload_schedules(<<>>, schedules, now)
                /\ UNCHANGED faults
             \/ \* the store is unavailable: reload returns 0
                /\ got.returns # NoDb
                /\ CanFault
                /\ faults' = faults + 1
                /\ jobs' = <<>>
             \/ \* line 54: database is None
                /\ got.returns = NoDb
                /\ jobs' = <<>>
                /\ UNCHANGED faults
    /\ UNCHANGED <<now, schedules, created, inv, started, logs, crashes, reply, reachable,
                   toggling>>

Next ==
    \/ \E t \in OnceTimes : create_schedule("c1", "once", t, NoCron)
    \/ \E c \in CronInputs : create_schedule("c1", "recurring", NULL, c)
    \/ \E s \in Ids : toggle_schedule(s)
    \/ \E s \in Ids : delete_schedule(s)
    \/ \E s \in Ids : test_run_schedule(s)
    \/ \E s \in Ids : FireJob(s)
    \/ \E s \in Ids : SkipJob(s)
    \/ Tick
    \/ \E i \in 1..MaxInv : Claim(i)
    \/ \E i \in 1..MaxInv : Send(i)
    \/ \E i \in 1..MaxInv : Log(i)
    \/ \E i \in 1..MaxInv : Update(i)
    \/ \E i \in 1..MaxInv : Notify(i)
    \/ \E i \in 1..MaxInv : Cleanup(i)
    \/ Crash
    \/ Startup

Spec == Init /\ [][Next]_vars

\* ------------------------------------------- the registry and its callers
\* add_schedule_job called for job id sid
AddJobCall(sid, stype, scheduled_time, cron) ==
    /\ up
    /\ jobs' = add_schedule_job(jobs, sid, stype, scheduled_time, cron, now)
    /\ reply' = [op |-> "add", contact_id |-> "none", id |-> sid, status |-> 0]
    /\ UNCHANGED <<now, up, running, stopping, client, db, reachable, toggling, schedules, created, inv, started, logs, faults, crashes>>

\* remove_schedule_job called for job id sid; the status is its return
\* value, 1 for True and 0 for False
RemoveJobCall(sid) ==
    /\ up
    /\ jobs' = remove_schedule_job(jobs, sid)
    /\ reply' = [op |-> "remove", contact_id |-> "none", id |-> sid,
                 status |-> IF sid \in DOMAIN jobs THEN 1 ELSE 0]
    /\ UNCHANGED <<now, up, running, stopping, client, db, reachable, toggling, schedules, created, inv, started, logs, faults, crashes>>

\* the store, the registry and the process lifecycle under every kind of
\* request; the runs of the executor are left out
RegNext ==
    \/ \E c \in RegContacts : \E t \in RegOnceTimes :
          create_schedule(c, "once", t, NoCron)
    \/ \E c \in RegContacts : \E e \in RegCronInputs :
          create_schedule(c, "recurring", NULL, e)
    \/ \E s \in Ids : toggle_schedule(s)
    \/ \E s \in Ids : delete_schedule(s)
    \/ \E s \in JobIds : \E t \in RegOnceTimes : AddJobCall(s, "once", t, NoCron)
    \/ \E s \in JobIds : \E e \in RegCronInputs : AddJobCall(s, "recurring", NULL, e)
    \/ \E s \in JobIds : RemoveJobCall(s)
    \/ \E s \in JobIds : SkipJob(s)
    \/ Tick
    \/ Crash
    \/ Startup

RegSpec == Init /\ [][RegNext]_vars

\* ------------------------------------------------------- sending at once
\* the MessageLog document of send_message_now, lines 187-196
SendNowLogDoc(result) ==
    [scheduled_message_id |-> NULL,
     status |-> IF result.success THEN "sent" ELSE "failed",
     error_message |-> result.error]

\* line 199: return result
SendNowReply(result) == result

\* POST /send-now, lines 177-199.  reply.call records what the gateway
\* client did during the request: the answers it met, the POSTs it made,
\* the sleeps it took and the dict it returned.
send_message_now(contact_id, responses) ==
    /\ up
    /\ IF ~ContactFound(contact_id)
       THEN /\ reply' = [op |-> "send-now", contact_id |-> contact_id, id |-> 0,
                         status |-> 404]
            /\ UNCHANGED <<logs, faults>>
       ELSE LET r == send_whatsapp_message(responses)
                result == GatewayResult(r)
                call == [responses |-> responses, attempts |-> r.attempts,
                         delays |-> r.delays, returned |-> result]
            IN \/ /\ BagCardinality(logs) < MaxSends
                  /\ logs' = AppendLog(logs, SendNowLogDoc(result))
                  /\ reply' = [op |-> "send-now", contact_id |-> contact_id,
                               id |-> 0, status |-> 200,
                               result |-> SendNowReply(result), call |-> call]
                  /\ UNCHANGED faults
               \/ \* insert_one raises after the send
                  /\ CanFault
                  /\ faults' = faults + 1
                  /\ reply' = [op |-> "send-now", contact_id |-> contact_id,
                               id |-> 0, status |-> 500,
                               result |-> NoResult, call |-> call]
                  /\ UNCHANGED logs
    /\ UNCHANGED <<now, up, running, stopping, client, db, reachable, toggling, schedules, created, jobs, inv, started, crashes>>

\* DELETE /logs, routes/logs.py lines 67-72
clear_logs ==
    /\ up
    /\ logs' = EmptyBag
    /\ reply' = [op |-> "clear-logs", contact_id |-> "none", id |-> 0, status |-> 200]
    /\ UNCHANGED <<now, up, running, stopping, client, db, reachable, toggling, schedules, created, jobs, inv, started, faults, crashes>>

SendNext ==
    \/ \E c \in RegContacts, run \in SendNowRuns : send_message_now(c, run)
    \/ clear_logs

SendSpec == Init /\ [][SendNext]_vars

\* ------------------------------------------------- the lease, by the minute
LeaseNext ==
    \/ \E t \in OnceTimes : create_schedule("c1", "once", t, NoCron)
    \/ \E c \in CronInputs : create_schedule("c1", "recurring", NULL, c)
    \/ \E s \in Ids : test_run_schedule(s)
    \/ \E s \in Ids : FireJob(s)
    \/ \E s \in Ids : SkipJob(s)
    \/ Minute
    \/ \E i \in 1..MaxInv : Claim(i)
    \/ \E i \in 1..MaxInv : Send(i)
    \/ \E i \in 1..MaxInv : Log(i)
    \/ \E i \in 1..MaxInv : Update(i)
    \/ \E i \in 1..MaxInv : Notify(i)
    \/ \E i \in 1..MaxInv : Cleanup(i)

LeaseSpec == Init /\ [][LeaseNext]_vars

\* --------------------------------------------------------------- shutdown
\* a shutdown that leaves the scheduler running
shutdown_scheduler_Noop(r) == r

\* core/scheduler.py, lines 12-15: scheduler.shutdown()
shutdown_scheduler(r) == FALSE

\* the runs the job scheduler submitted and has not seen return
Submitted == {j \in InvIds : inv[j].src = "trigger"}

\* shutdown handler of server.py, lines 90-97.  The handler waits for no
\* execution; scheduler.shutdown() may cancel the runs it submitted.
Shutdown ==
    /\ up
    /\ ~stopping
    /\ stopping' = TRUE
    /\ running' = shutdown_scheduler(running)
    /\ \/ inv' = [j \in InvIds \ Submitted |-> inv[j]]
       \/ UNCHANGED inv
    /\ UNCHANGED <<now, up, schedules, created, jobs, started, logs, faults, crashes,
                   reply, client, db, reachable, toggling>>

\* the handler has returned and the process ends
Exit ==
    /\ up
    /\ stopping
    /\ crashes < MaxCrashes
    /\ crashes' = crashes + 1
    /\ up' = FALSE
    /\ running' = FALSE
    /\ stopping' = FALSE
    /\ jobs' = <<>>
    /\ inv' = <<>>
    /\ client' = NoClient
    /\ db' = NoDb
    /\ toggling' = <<>>
    /\ UNCHANGED <<now, schedules, created, started, logs, faults, reply, reachable>>

StopNext ==
    \/ \E t \in OnceTimes : create_schedule("c1", "once", t, NoCron)
    \/ \E c \in CronInputs : create_schedule("c1", "recurring", NULL, c)
    \/ \E s \in Ids : FireJob(s)
    \/ \E s \in Ids : SkipJob(s)
    \/ Tick
    \/ \E i \in 1..MaxInv : Claim(i)
    \/ \E i \in 1..MaxInv : Send(i)
    \/ \E i \in 1..MaxInv : Log(i)
    \/ \E i \in 1..MaxInv : Update(i)
    \/ \E i \in 1..MaxInv : Notify(i)
    \/ \E i \in 1..MaxInv : Cleanup(i)
    \/ Shutdown
    \/ Exit
    \/ Startup

StopSpec == Init /\ [][StopNext]_vars

\* ------------------------------------------------ the store connection
\* the store stops answering, and answers again
StoreDown ==
    /\ reachable
    /\ reachable' = FALSE
    /\ UNCHANGED <<now, up, running, stopping, client, db, schedules, created, jobs, inv,
                   started, logs, faults, crashes, reply, toggling>>

StoreUp ==
    /\ ~reachable
    /\ reachable' = TRUE
    /\ UNCHANGED <<now, up, running, stopping, client, db, schedules, created, jobs, inv,
                   started, logs, faults, crashes, reply, toggling>>

\* a request handler calls get_database; reply records what the call
\* returned, or the 503 it raised, and whether the store was reachable
GetDatabaseCall ==
    /\ up
    /\ LET got == get_database(client, db, reachable)
       IN /\ client' = got.client
          /\ db' = got.db
          /\ reply' = [op |-> "get-database", contact_id |-> "none", id |-> 0,
                       status |-> got.status, returns |-> got.returns,
                       reachable |-> reachable]
    /\ UNCHANGED <<now, up, running, stopping, reachable, schedules, created, jobs, inv,
                   started, logs, faults, crashes, toggling>>

DbNext ==
    \/ StoreDown
    \/ StoreUp
    \/ GetDatabaseCall
    \/ Tick
    \/ Crash
    \/ Shutdown
    \/ Exit
    \/ Startup

DbSpec == Init /\ [][DbNext]_vars

\* ------------------------------------------------- concurrent toggles
\* PUT /schedules/{id}/toggle as the event loop runs it: the handler is
\* suspended at the await of its find_one and at the await of its update_one,
\* and other requests run in between.  toggling holds the locals of the
\* requests in flight.
\* lines 73-77: the record is read and its is_active negated
ToggleRead(r, sid) ==
    /\ up
    /\ r \notin DOMAIN toggling
    /\ sid \in Stored
    /\ toggling' = [q \in DOMAIN toggling \cup {r} |->
                      IF q = r
                      THEN [sid |-> sid, pc |-> "write", schedule |-> schedules[sid],
                            new_status |-> ~schedules[sid].is_active]
                      ELSE toggling[q]]
    /\ UNCHANGED <<now, up, running, stopping, client, db, reachable, schedules, created,
                   jobs, inv, started, logs, faults, crashes, reply>>

\* line 78: update_one sets is_active to the negation of what was read
ToggleWrite(r) ==
    /\ up
    /\ r \in DOMAIN toggling
    /\ toggling[r].pc = "write"
    /\ schedules' = IF toggling[r].sid \in Stored
                    THEN [schedules EXCEPT
                            ![toggling[r].sid].is_active = toggling[r].new_status]
                    ELSE schedules
    /\ toggling' = [toggling EXCEPT ![r].pc = "register"]
    /\ UNCHANGED <<now, up, running, stopping, client, db, reachable, created,
                   jobs, inv, started, logs, faults, crashes, reply>>

\* lines 80-94: the job is added from the fire spec that was read, or
\* removed, and the request is answered
ToggleRegister(r) ==
    /\ up
    /\ r \in DOMAIN toggling
    /\ toggling[r].pc = "register"
    /\ LET doc == toggling[r].schedule
       IN jobs' = IF toggling[r].new_status
                  THEN add_schedule_job(jobs, toggling[r].sid, doc.schedule_type,
                                        doc.scheduled_time, doc.cron_expression, now)
                  ELSE remove_schedule_job(jobs, toggling[r].sid)
    /\ toggling' = [q \in DOMAIN toggling \ {r} |-> toggling[q]]
    /\ UNCHANGED <<now, up, running, stopping, client, db, reachable, schedules, created,
                   inv, started, logs, faults, crashes, reply>>

ToggleNext ==
    \/ \E t \in OnceTimes : create_schedule("c1", "once", t, NoCron)
    \/ \E c \in CronInputs : create_schedule("c1", "recurring", NULL, c)
    \/ \E r \in 1..MaxToggling : \E s \in Ids : ToggleRead(r, s)
    \/ \E r \in 1..MaxToggling : ToggleWrite(r)
    \/ \E r \in 1..MaxToggling : ToggleRegister(r)
    \/ \E s \in Ids : SkipJob(s)
    \/ Tick

ToggleSpec == Init /\ [][ToggleNext]_vars

\* ------------------------------------------------- the writers of the log
\* executions started by test runs, requests to send now, and the request
\* that clears the log
LogNext ==
    \/ \E t \in OnceTimes : create_schedule("c1", "once", t, NoCron)
    \/ \E c \in CronInputs : create_schedule("c1", "recurring", NULL, c)
    \/ \E s \in Ids : test_run_schedule(s)
    \/ \E i \in 1..MaxInv : Claim(i)
    \/ \E i \in 1..MaxInv : Send(i)
    \/ \E i \in 1..MaxInv : Log(i)
    \/ \E i \in 1..MaxInv : Update(i)
    \/ \E i \in 1..MaxInv : Notify(i)
    \/ \E i \in 1..MaxInv : Cleanup(i)
    \/ \E run \in GatewayRuns : send_message_now("c1", run)
    \/ clear_logs

LogSpec == Init /\ [][LogNext]_vars

\* ------------------------------------------------------------ properties
\* steps of invocation i, read off a pair of states
Returns(i) == i \in InvIds /\ up' /\ i \notin DOMAIN inv'
ClaimWon(i) ==
    i \in InvIds /\ inv[i].pc = "claim" /\ i \in DOMAIN inv' /\ inv'[i].pc = "send"
ClaimLost(i) ==
    /\ i \in InvIds /\ inv[i].pc = "claim" /\ up'
    /\ i \notin DOMAIN inv' \/ inv'[i].claim = "lost"
Claimable(S, sid, t) ==
    /\ sid \in DOMAIN S
    /\ S[sid].is_active
    /\ \/ S[sid].executing \in {ABSENT, NULL}
       \/ t - S[sid].executing > LeaseMinutes

\* C1: of the invocations started for one fire event and racing within the
\* lease window, at most one calls the gateway (and so at most one appends a
\* log entry): an invocation that was already started when another invocation
\* of its schedule called the gateway does not call the gateway itself while
\* the lease window of that first call is still open.  Stated for the runs in
\* which no store operation has failed.
C1_OneSendPerFireEvent ==
    [][\A i \in InvIds :
         (inv[i].pc = "send" /\ i \in DOMAIN inv' /\ inv'[i].pc = "log"
            /\ faults = 0)
           => ~(inv[i].raced /\ now <= LeaseMinutes)]_vars

\* C2: two invocations of one schedule are never both between a successful
\* claim and the release of the lease, as long as the earlier holder has held
\* the lease for no more than five minutes.
C2_MutualExclusion ==
    \A i \in InvIds : \A j \in InvIds :
        (i # j /\ inv[i].sid = inv[j].sid /\ Holding(i) /\ Holding(j)
           /\ inv[i].now <= inv[j].now)
          => inv[j].now - inv[i].now > LeaseMinutes

\* C3: a restart never re-arms a fire event of the past: after the startup
\* reload every registered job fires strictly later than the restart, so a
\* one-time schedule whose time has come is not registered again; and no
\* claim, before or after the restart, succeeds over a lease that is less than
\* five minutes old.
C3_AtMostOnceAcrossRestart ==
    [][/\ (~up /\ up') =>
            \A s \in DOMAIN jobs' :
                /\ jobs'[s].next > now
                /\ s \in Stored /\ schedules[s].is_active
                /\ schedules[s].schedule_type = "once"
                     => schedules[s].scheduled_time > now
       /\ \A i \in InvIds :
            ClaimWon(i) =>
                \/ schedules[inv[i].sid].executing \in {ABSENT, NULL}
                \/ now - schedules[inv[i].sid].executing > LeaseMinutes]_vars

\* C3 witness: after a crash and a restart, a one-time schedule whose run was
\* interrupted (its lease was left behind) is active, due and not registered
C3_Witness ==
    /\ up /\ crashes = 1
    /\ \E s \in Stored :
         /\ schedules[s].schedule_type = "once"
         /\ schedules[s].is_active
         /\ schedules[s].executing \notin {ABSENT, NULL}
         /\ schedules[s].executing >= schedules[s].scheduled_time
         /\ schedules[s].scheduled_time <= now
         /\ s \notin DOMAIN jobs
         /\ \A i \in InvIds : inv[i].sid # s

\* C4: a claim succeeds exactly when the schedule exists, is active and its
\* lease is absent, null or more than five minutes old; a successful claim
\* changes nothing but the lease, which becomes the time of the claim.
C4_ClaimIff ==
    [][\A i \in InvIds :
         /\ (ClaimWon(i) \/ ClaimLost(i)) =>
               (ClaimWon(i) <=> Claimable(schedules, inv[i].sid, now))
         /\ ClaimWon(i) =>
               /\ schedules' = [schedules EXCEPT ![inv[i].sid].executing = now]
               /\ inv'[i].now = now
               /\ logs' = logs /\ jobs' = jobs]_vars

\* C4 witness: an invocation holds a lease it claimed over the lease, more
\* than five minutes old, of an earlier invocation that is still in flight
C4_Witness ==
    \E i \in InvIds : \E j \in InvIds :
        /\ i # j /\ inv[i].sid = inv[j].sid
        /\ inv[i].claim = "won" /\ inv[j].claim = "won"
        /\ inv[j].pc = "send"
        /\ inv[j].now - inv[i].now > LeaseMinutes
        /\ schedules[inv[j].sid].executing = inv[j].now

\* C4 witness of the refusal: an invocation is about to attempt a claim on an
\* active schedule whose lease is younger than five minutes
C4_HeldLease ==
    \E i \in InvIds :
        /\ inv[i].pc = "claim" /\ inv[i].sid \in Stored
        /\ schedules[inv[i].sid].is_active
        /\ schedules[inv[i].sid].executing \notin {ABSENT, NULL}
        /\ now - schedules[inv[i].sid].executing < LeaseMinutes

\* C5: an invocation whose claim fails changes nothing, on any path to its
\* return: while another invocation holds the lease of the schedule, no step
\* of the failed invocation changes the schedule record or the log.
C5_LostClaimIsNoOp ==
    [][\A i \in InvIds :
         ((ClaimLost(i) \/ (inv[i].claim = "lost" /\ Returns(i)))
            /\ \E h \in InvIds : h # i /\ inv[h].sid = inv[i].sid /\ Holding(h))
           => (schedules' = schedules /\ logs' = logs)]_vars

C6_InsertRaised ==
    \E i \in InvIds :
        inv[i].claim = "won" /\ inv[i].pc = "cleanup" /\ inv[i].logged = 0

\* C7: the update step sets last_run to the claim time and the lease to null;
\* for a one-time schedule it also sets is_active to false and completed_at to
\* the claim time; for a recurring schedule it leaves is_active as it is and
\* sets no completed_at.
C7_UpdateStep ==
    [][\A i \in InvIds :
         (inv[i].pc = "update" /\ i \in DOMAIN inv' /\ inv'[i].pc = "notify"
            /\ inv[i].sid \in Stored)
           => LET old == schedules[inv[i].sid]
                  new == schedules'[inv[i].sid]
              IN /\ new.last_run = inv[i].now
                 /\ new.executing = NULL
                 /\ old.schedule_type = "once" =>
                       /\ new.is_active = FALSE
                       /\ new.completed_at = inv[i].now
                 /\ old.schedule_type = "recurring" =>
                       /\ new.is_active = old.is_active
                       /\ new.completed_at = ABSENT
                 /\ new = [old EXCEPT !.last_run = new.last_run,
                                      !.executing = new.executing,
                                      !.is_active = new.is_active,
                                      !.completed_at = new.completed_at]]_vars

\* C7 witness: a one-time schedule completed by a run claimed earlier than the
\* present minute, whose logged status was "failed"
C7_Witness ==
    \E s \in Stored :
        /\ schedules[s].schedule_type = "once"
        /\ ~schedules[s].is_active
        /\ schedules[s].executing = NULL
        /\ schedules[s].last_run # NULL /\ schedules[s].last_run < now
        /\ schedules[s].completed_at = schedules[s].last_run
        /\ \E d \in BagToSet(logs) : d.scheduled_message_id = s /\ d.status = "failed"

\* C7 witness, recurring: a recurring schedule after an update step, still
\* active and without completed_at
C7_RecurringUpdated ==
    \E s \in Stored :
        /\ schedules[s].schedule_type = "recurring"
        /\ schedules[s].is_active
        /\ schedules[s].last_run # NULL
        /\ schedules[s].executing = NULL
        /\ schedules[s].completed_at = ABSENT

\* C8: once the update step of an execution of a one-time schedule is done,
\* by the trigger or by a test run before the scheduled time, the schedule is
\* inactive and no trigger registration for it remains.
C8_OnceDoneNoRegistration ==
    [][\A i \in InvIds :
         (inv[i].pc = "update" /\ i \in DOMAIN inv' /\ inv'[i].pc = "notify"
            /\ inv[i].sid \in Stored
            /\ schedules[inv[i].sid].schedule_type = "once")
           => /\ ~schedules'[inv[i].sid].is_active
              /\ inv[i].sid \notin DOMAIN jobs']_vars

\* C9: a schedule stored with is_active = false has no live trigger
\* registration.
C9_InactiveNotRegistered ==
    \A s \in Stored : ~schedules[s].is_active => s \notin DOMAIN jobs

\* C10: when a step after a successful claim raised and the store accepts the
\* write of the error handler, the invocation returns with the lease null and
\* nothing else changed, so that an active schedule is claimable at once.
C10_CleanupReleases ==
    [][\A i \in InvIds :
         (inv[i].claim = "won" /\ inv[i].pc = "cleanup" /\ Returns(i)
            /\ faults' = faults /\ inv[i].sid \in Stored)
           => /\ schedules' =
                   [schedules EXCEPT ![inv[i].sid].executing = NULL]
              /\ schedules[inv[i].sid].is_active
                   => Claimable(schedules', inv[i].sid, now)]_vars

\* C10 witness: a log entry was appended, the update step never ran, and the
\* lease is null again after the invocation has returned
C10_Witness ==
    /\ inv = <<>> /\ up /\ crashes = 0
    /\ \E s \in Stored :
         /\ schedules[s].executing = NULL
         /\ schedules[s].last_run = NULL
         /\ schedules[s].is_active
         /\ BagCardinality(logs) = 1

\* C11: a lease that was never cleared heals itself: every claim attempted on
\* an active schedule more than five minutes after the claim time its lease
\* records succeeds, whoever left the lease behind.
C11_LeaseSelfHealing ==
    [][\A i \in InvIds :
         ((ClaimWon(i) \/ ClaimLost(i))
            /\ inv[i].sid \in Stored
            /\ schedules[inv[i].sid].is_active
            /\ schedules[inv[i].sid].executing \notin {ABSENT, NULL}
            /\ now - schedules[inv[i].sid].executing > LeaseMinutes)
           => /\ ClaimWon(i)
              /\ schedules'[inv[i].sid].executing = now]_vars

\* C11 witness: the process died after an invocation had logged and before
\* its update step, so its lease stayed; no store operation ever failed; more
\* than five minutes later another invocation has claimed the schedule
C11_Witness ==
    /\ crashes = 1 /\ faults = 0 /\ up
    /\ BagCardinality(logs) = 1
    /\ \E i \in InvIds :
         /\ Holding(i) /\ inv[i].pc = "send"
         /\ inv[i].now > LeaseMinutes
         /\ schedules[inv[i].sid].last_run = NULL
         /\ schedules[inv[i].sid].executing = inv[i].now
         /\ \A j \in InvIds : j = i

\* C12: the notification step changes no committed state, whether the push
\* is delivered or fails: the step of an invocation that has run its update
\* step is its return, and it leaves the schedule records, the log and the
\* registrations as they are, also when a later invocation holds the lease.
C12_PushFailureNoEffect ==
    [][\A i \in InvIds :
         (inv[i].pc = "notify" /\ up'
            /\ (i \notin DOMAIN inv' \/ inv'[i] # inv[i]))
           => /\ Returns(i)
              /\ schedules' = schedules
              /\ logs' = logs
              /\ jobs' = jobs]_vars

\* C12 witness: one invocation was ever started, it wrote its log entry and
\* its update, and the one failure of an external service was its push
C12_Witness ==
    /\ started = 1 /\ inv = <<>> /\ crashes = 0 /\ faults = 1
    /\ BagCardinality(logs) = 1
    /\ \E s \in Stored :
         /\ schedules[s].last_run # NULL
         /\ schedules[s].executing = NULL
         /\ schedules[s].schedule_type = "once"
         /\ ~schedules[s].is_active
         /\ schedules[s].completed_at = schedules[s].last_run

\* C13: the startup reload registers no trigger for an active one-time
\* schedule whose scheduled_time is at or before the time of the reload, and
\* the job scheduler starts a run of a one-time schedule at its scheduled_time
\* only: no backlog fire happens after downtime.
C13_NoBacklogFire ==
    [][/\ (~up /\ up') =>
            \A s \in Stored :
                (schedules[s].is_active /\ schedules[s].schedule_type = "once"
                   /\ schedules[s].scheduled_time <= now)
                  => s \notin DOMAIN jobs'
       /\ (started' = started + 1 /\ inv'[started'].src = "trigger"
             /\ inv'[started'].sid \in Stored
             /\ schedules[inv'[started'].sid].schedule_type = "once")
            => schedules[inv'[started'].sid].scheduled_time = now]_vars

\* C13 witness: after a restart with the store available, an active one-time
\* schedule whose time has passed is not registered and was never executed
C13_Witness ==
    /\ up /\ crashes = 1 /\ faults = 0 /\ started = 0
    /\ logs = EmptyBag
    /\ \E s \in Stored :
         /\ schedules[s].schedule_type = "once"
         /\ schedules[s].is_active
         /\ schedules[s].scheduled_time < now
         /\ schedules[s].last_run = NULL
         /\ s \notin DOMAIN jobs

\* C14: a one-time schedule that the startup reload finds lapsed is flagged:
\* the reload changes its stored record, or the value the reload returns
\* differs from the one it returns on the store without that schedule.
C14_LapsedFlagged ==
    [][(~up /\ up' /\ faults' = faults) =>
         \A s \in Stored :
             (schedules[s].is_active /\ schedules[s].schedule_type = "once"
                /\ schedules[s].scheduled_time <= now)
               => \/ s \in DOMAIN schedules' /\ schedules'[s] # schedules[s]
                  \/ reload_result(schedules, now) #
                       reload_result([o \in Stored \ {s} |-> schedules[o]], now)]_vars

\* C15: after the startup reload of a fresh process with the store available,
\* the registered ids are exactly the stored schedules that are active and
\* either recurring with a well-formed cron expression or one-time with a
\* scheduled_time strictly in the future (for a store of at most ToListLimit
\* active schedules, which is all that is reached here).
C15_ReloadRegistersExactly ==
    [][(~up /\ up' /\ faults' = faults) =>
         DOMAIN jobs' =
           {s \in Stored :
              /\ schedules[s].is_active
              /\ \/ /\ schedules[s].schedule_type = "recurring"
                    /\ schedules[s].cron_expression # NoCron
                    /\ WellFormed(schedules[s].cron_expression)
                 \/ /\ schedules[s].schedule_type = "once"
                    /\ schedules[s].scheduled_time # NULL
                    /\ schedules[s].scheduled_time > now}]_vars

\* C15 witness: after a restart the registry holds the job of the stored,
\* active recurring schedule, and only that job
C15_Witness ==
    /\ up /\ crashes = 1 /\ faults = 0
    /\ reply.op \in {"none", "create"}
    /\ \E s \in Stored :
         /\ schedules[s].is_active
         /\ schedules[s].schedule_type = "recurring"
         /\ DOMAIN jobs = {s}
         /\ jobs[s].kind = "cron" /\ jobs[s].next > now

\* C15 witness of the exclusions: after a restart an active recurring
\* schedule with a malformed cron expression is stored and not registered
C15_MalformedSkipped ==
    /\ up /\ crashes = 1 /\ faults = 0
    /\ \E s \in Stored :
         /\ schedules[s].is_active
         /\ schedules[s].cron_expression = BadMinute
         /\ jobs = <<>>

\* C16: the registry holds one registration per id whatever calls were made:
\* from every reachable registry, add_schedule_job a second time with the
\* same arguments changes nothing, it touches no other id, and when it
\* registers, the registration of the id is the one of the newer fire spec.
C16_AddIdempotentReplace ==
    \A sid \in JobIds : \A stype \in {"once", "recurring"} :
      \A t \in RegOnceTimes : \A cron \in RegCronInputs :
        LET first == add_schedule_job(jobs, sid, stype, t, cron, now)
        IN /\ add_schedule_job(first, sid, stype, t, cron, now) = first
           /\ DOMAIN first \subseteq DOMAIN jobs \cup {sid}
           /\ \A o \in DOMAIN jobs \ {sid} : o \in DOMAIN first /\ first[o] = jobs[o]
           /\ (stype = "once" /\ t # NULL) =>
                 /\ sid \in DOMAIN first
                 /\ first[sid] = [kind |-> "date", next |-> t, cron |-> NoCron]
           /\ (stype = "recurring" /\ cron # NoCron /\ WellFormed(cron)) =>
                 /\ sid \in DOMAIN first
                 /\ first[sid].kind = "cron" /\ first[sid].cron = cron
                 /\ first[sid].next > now

\* C16 witness: the job of a stored one-time schedule has been re-registered
\* with a cron fire spec by a call of add_schedule_job, next to another job
C16_Witness ==
    /\ reply.op = "add"
    /\ \E s \in Stored :
         /\ reply.id = s
         /\ schedules[s].schedule_type = "once"
         /\ s \in DOMAIN jobs /\ jobs[s].kind = "cron"
         /\ \E o \in DOMAIN jobs : o # s

\* C17: remove_schedule_job for an id without registration returns (False)
\* and leaves every registration and the store as they are.
C17_RemoveAbsentNoOp ==
    [][(reply' # reply /\ reply'.op = "remove" /\ reply'.id \notin DOMAIN jobs)
         => /\ reply'.status = 0
            /\ jobs' = jobs
            /\ schedules' = schedules]_vars

\* C17 witness: the latest call was a removal of an id without registration,
\* while another id is registered and a schedule is stored
C17_Witness ==
    /\ reply.op = "remove" /\ reply.status = 0
    /\ reply.id \notin DOMAIN jobs
    /\ jobs # <<>>
    /\ Stored # {}

\* C18: a schedule that a creation stores is registered: a recurring schedule
\* with a malformed cron expression, or a schedule without fire spec, is
\* rejected and never stored active without a live trigger.
C18_CreatedIsRegistered ==
    [][created' = created + 1 => created' \in DOMAIN jobs']_vars

\* C19: a creation request with a contact_id that is not in the store is
\* answered 404, inserts no schedule record and registers no trigger.
C19_UnknownContactRejected ==
    [][(reply' # reply /\ reply'.op = "create" /\ reply'.contact_id \notin Contacts)
         => /\ reply'.status = 404
            /\ schedules' = schedules
            /\ created' = created
            /\ jobs' = jobs]_vars

\* C19 witness: the latest request was a creation for an unknown contact,
\* answered 404, and nothing is stored or registered
C19_Witness ==
    /\ reply.op = "create" /\ reply.contact_id = "c9" /\ reply.status = 404
    /\ schedules = <<>> /\ jobs = <<>> /\ created = 0

SentNow == reply.op = "send-now" /\ reply.status # 404

\* a failed attempt that the claims call transient: an exception of the
\* request, or a body without success whose error names no permanent cause
TransientFailure(response) ==
    \/ response.kind = "raise"
    \/ /\ response.kind = "json" /\ ~response.success
       /\ ~(response.error_key = "text" /\
            \E pf \in permanent_failures : Contains(Lower(response.error), pf))

\* a body without success whose error text names a permanent cause
PermanentFailure(response) ==
    /\ response.kind = "json" /\ ~response.success /\ response.error_key = "text"
    /\ \E pf \in permanent_failures : Contains(Lower(response.error), pf)

\* C21: two transient failures followed by a success make exactly three
\* attempts, with a sleep of 1 s after the first failure and of 2 s after
\* the second, and the call returns success.
C21_TwoRetriesThenSuccess ==
    (/\ SentNow
     /\ TransientFailure(reply.call.responses[1])
     /\ TransientFailure(reply.call.responses[2])
     /\ reply.call.responses[3] = Sent)
      => /\ reply.call.attempts = 3
         /\ reply.call.delays = <<1, 2>>
         /\ reply.call.returned.success

\* C21 witness: a rejected attempt and one that raised (with a text that
\* would be a permanent cause in a body) were followed by a success that the
\* caller received
C21_Witness ==
    /\ SentNow /\ reply.status = 200
    /\ reply.call.responses = <<Rejected(Busy), Raised(Blocked), Sent>>
    /\ reply.result.success
    /\ \E d \in BagToSet(logs) : d.status = "sent"

\* C22: a first answer whose error text contains, in any case, one of the
\* permanent causes ends the call: one attempt, no sleep, and the failure is
\* returned with the gateway's error.
C22_PermanentNotRetried ==
    (SentNow /\ PermanentFailure(reply.call.responses[1]))
      => /\ reply.call.attempts = 1
         /\ reply.call.delays = <<>>
         /\ ~reply.call.returned.success
         /\ reply.call.returned.error = reply.call.responses[1].error

\* C22 witness: the gateway answered "NOT ON WHATSAPP" and later answers
\* would have succeeded
C22_Witness ==
    /\ SentNow /\ reply.status = 200
    /\ reply.call.responses = <<Rejected(NotOnWA), Sent, Sent>>
    /\ \E d \in BagToSet(logs) : d.status = "failed" /\ d.error_message = NotOnWA

\* C23: whatever the gateway answers, the call makes at most three attempts
\* and returns a result; when three attempts fail transiently the result is
\* a failure whose error reports the three attempts and the last error.
C23_BoundedAttempts ==
    SentNow =>
      /\ reply.call.attempts \in 1..MaxRetries
      /\ Len(reply.call.delays) <= MaxRetries - 1
      /\ reply.call.returned.success \in BOOLEAN
      /\ (\A k \in 1..MaxRetries : TransientFailure(reply.call.responses[k]))
           => /\ reply.call.attempts = MaxRetries
              /\ ~reply.call.returned.success
              /\ reply.call.returned.error =
                   <<"Failed after ", "3", " attempts: ">>
                     \o LastError(reply.call.responses[MaxRetries])

\* C23 witness: three failures, the last one a body whose error is null
C23_Witness ==
    /\ SentNow /\ reply.status = 200
    /\ reply.call.responses = <<Raised(Blocked), Rejected(Busy), NullReason>>
    /\ reply.call.delays = <<1, 2>>
    /\ reply.call.attempts = 3
    /\ reply.result.error = FailedAfter(3, NoneHasNoLower)

\* C24 (the test-run half): a test run whose execution made no successful
\* send, because its claim did not succeed, is answered with a failure.
C24_ReplyMirrorsGateway ==
    [][\A i \in InvIds :
         (inv[i].src = "route" /\ Returns(i) /\ inv[i].claim # "won")
           => (reply'.op = "test-run" /\ ~reply'.result.success)]_vars

\* C25: a test run for a stored id is answered 200 whichever way the
\* execution ends, the error handler included; the executor is only invoked
\* for a stored id, and a 404 answer comes with no invocation and no change
\* of the store.
C25_TestRunAlwaysAnswers ==
    [][/\ \A i \in InvIds :
            (inv[i].src = "route" /\ Returns(i))
              => /\ reply'.op = "test-run"
                 /\ reply'.status = 200
                 /\ reply'.id = inv[i].sid
       /\ \A i \in DOMAIN inv' \ InvIds :
            inv'[i].src = "route" => inv'[i].sid \in Stored
       /\ (reply' # reply /\ reply'.op = "test-run" /\ reply'.status = 404)
            => /\ reply'.id \notin Stored
               /\ inv' = inv /\ started' = started
               /\ schedules' = schedules /\ logs' = logs]_vars

\* C25 witness: the only execution so far was a test run whose log insert
\* raised; the error handler released the lease and the caller was answered
\* 200
C25_Witness ==
    /\ reply.op = "test-run" /\ reply.status = 200
    /\ started = 1 /\ inv = <<>> /\ up /\ crashes = 0
    /\ faults = 1 /\ logs = EmptyBag
    /\ reply.id \in Stored
    /\ schedules[reply.id].executing = NULL
    /\ schedules[reply.id].last_run = NULL

\* C25, the other case: a test run for a deleted schedule was answered 404
C25_NotFound ==
    /\ reply.op = "test-run" /\ reply.status = 404
    /\ reply.id \notin Stored /\ created = 1 /\ started = 0

\* C26 as stated: no step of the system removes or changes a log entry.
C26_AppendOnly ==
    [][\A d \in BagToSet(logs) : CopiesIn(d, logs') >= CopiesIn(d, logs)]_vars

\* C26, amended: a step that changes the log either appends exactly one
\* entry and keeps every entry there was, or is the request that clears the
\* log and leaves it empty.
C26_OnlyClearRemoves ==
    [][logs' # logs =>
         \/ /\ BagCardinality(logs') = BagCardinality(logs) + 1
            /\ \A d \in BagToSet(logs) : CopiesIn(d, logs') >= CopiesIn(d, logs)
         \/ /\ logs' = EmptyBag
            /\ reply'.op = "clear-logs"]_vars

\* C26 witness: the log holds an entry of an execution and an entry of a
\* request to send now, appended one after the other
C26_Witness ==
    /\ BagCardinality(logs) = 2
    /\ \E d \in BagToSet(logs) : d.scheduled_message_id \in Ids
    /\ \E d \in BagToSet(logs) : d.scheduled_message_id = NULL

\* C26, the amendment's case: the log was cleared and an execution that was
\* in flight has appended its entry afterwards
C26_AfterClear ==
    /\ reply.op = "clear-logs"
    /\ BagCardinality(logs) = 1
    /\ \E d \in BagToSet(logs) : d.scheduled_message_id \in Ids

\* C27 as stated: once the shutdown handler has begun no trigger starts an
\* invocation, and an execution that was in flight ends only by returning.
C27_InFlightFinish ==
    [][/\ (stopping' /\ up') =>
            \A i \in DOMAIN inv' \ InvIds : inv'[i].src # "trigger"
       /\ \A i \in InvIds :
            ((stopping \/ stopping') /\ i \notin DOMAIN inv')
              => (up' /\ inv[i].pc \in {"claim", "notify", "cleanup"})]_vars

\* C27, amended: from the step of the shutdown handler until the process
\* ends the scheduler is stopped, and no step starts an invocation on behalf
\* of a trigger, however many registered jobs are due.
C27_NoFireAfterShutdown ==
    [][(stopping' /\ up') =>
         /\ ~running'
         /\ \A i \in DOMAIN inv' \ InvIds : inv'[i].src # "trigger"]_vars

\* C27 witness: the shutdown handler has run while a run of the job
\* scheduler held the lease; the run was cut off, and the next occurrence of
\* the job is due and has not fired
C27_Witness ==
    /\ up /\ stopping /\ crashes = 0 /\ faults = 0
    /\ inv = <<>>
    /\ \E s \in Stored \cap DOMAIN jobs :
         /\ jobs[s].next = now
         /\ schedules[s].executing \notin {ABSENT, NULL}
         /\ schedules[s].executing < now

\* C28: a claim on an active schedule whose lease is exactly five minutes
\* old fails, and a claim that takes over a lease succeeds only when the
\* lease is strictly older than five minutes.
C28_BoundaryHeld ==
    [][\A i \in InvIds :
         (/\ ClaimWon(i) \/ ClaimLost(i)
          /\ inv[i].sid \in Stored
          /\ schedules[inv[i].sid].is_active
          /\ schedules[inv[i].sid].executing \notin {ABSENT, NULL})
           => /\ schedules[inv[i].sid].executing = now - LeaseMinutes
                   => ~ClaimWon(i)
              /\ ClaimWon(i)
                   => schedules[inv[i].sid].executing < now - LeaseMinutes]_vars

\* C28 witness: an invocation read the clock exactly five minutes after the
\* lease was taken, its claim matched nothing, and the lease is still there
C28_Witness ==
    \E i \in InvIds :
        /\ inv[i].pc = "cleanup" /\ inv[i].claim = "lost"
        /\ inv[i].sid \in Stored
        /\ schedules[inv[i].sid].is_active
        /\ schedules[inv[i].sid].executing \notin {ABSENT, NULL}
        /\ inv[i].now = schedules[inv[i].sid].executing + LeaseMinutes

\* the lease of schedule s is the one an invocation in flight has taken
HeldBy(s) ==
    \E i \in InvIds :
        /\ Holding(i) /\ inv[i].sid = s
        /\ inv[i].now = schedules[s].executing

C29_Orphan ==
    /\ up /\ crashes = 1 /\ inv = <<>>
    /\ \E s \in Stored :
         /\ schedules[s].executing \notin {ABSENT, NULL}
         /\ schedules[s].executing > now - LeaseMinutes

\* C30: a toggle negates the stored is_active, and after it the schedule is
\* registered with the job scheduler if and only if it is active.
C30_ToggleRegistersIff ==
    [][\A s \in Stored \cap DOMAIN schedules' :
         schedules'[s].is_active # schedules[s].is_active
           => /\ schedules'[s] = [schedules[s] EXCEPT !.is_active = ~schedules[s].is_active]
              /\ s \in DOMAIN jobs' <=> schedules'[s].is_active]_vars

\* C31: a delete that is answered 200 leaves no record and no registration
\* of the id, and the id is never stored again; an invocation for the id
\* whose claim comes after the delete calls no gateway and appends no log: it
\* returns, or its error handler runs and writes nothing.  A delete of an id
\* that is not stored is answered 404 and changes nothing.
C31_DeleteRemovesAll ==
    [][/\ (reply' # reply /\ reply'.op = "delete") =>
            /\ reply'.status = 200 =>
                  /\ reply'.id \in Stored
                  /\ reply'.id \notin DOMAIN schedules'
                  /\ reply'.id \notin DOMAIN jobs'
            /\ reply'.status = 404 =>
                  /\ reply'.id \notin Stored
                  /\ schedules' = schedules /\ jobs' = jobs
            /\ reply'.status \in {200, 404}
            /\ logs' = logs /\ inv' = inv
       /\ \A s \in 1..created : s \notin Stored => s \notin DOMAIN schedules'
       /\ \A i \in InvIds :
            (inv[i].sid \notin Stored /\ inv[i].claim # "won" /\ up'
               /\ (i \notin DOMAIN inv' \/ inv'[i].pc # inv[i].pc))
              => /\ i \notin DOMAIN inv' \/ inv'[i].pc = "cleanup"
                 /\ i \in DOMAIN inv' => inv'[i].claim # "won"
                 /\ logs' = logs
                 /\ schedules' = schedules]_vars

\* C31 witness: the schedule was deleted after the trigger had started a run
\* for it and before that run made its claim; nothing is registered
C31_Witness ==
    /\ reply.op = "delete" /\ reply.status = 200
    /\ reply.id \notin Stored /\ reply.id \notin DOMAIN jobs
    /\ logs = EmptyBag /\ faults = 0
    /\ \E i \in InvIds :
         /\ inv[i].sid = reply.id /\ inv[i].src = "trigger"
         /\ inv[i].pc = "claim"

\* C31, the other case: a second delete of the id was answered 404
C31_NotFound ==
    /\ reply.op = "delete" /\ reply.status = 404
    /\ created = 1 /\ Stored = {}

\* C32: at the startup reload an active recurring schedule whose cron
\* expression is malformed gets no registration, every other schedule the
\* reload would register is registered all the same, and the schedule is left
\* out of the count the reload returns.
C32_MalformedNotCounted ==
    [][(~up /\ up' /\ faults' = faults) =>
         \A s \in Stored :
             (/\ schedules[s].is_active
              /\ schedules[s].schedule_type = "recurring"
              /\ schedules[s].cron_expression # NoCron
              /\ ~WellFormed(schedules[s].cron_expression))
               => LET others == [o \in Stored \ {s} |-> schedules[o]]
                  IN /\ s \notin DOMAIN jobs'
                     /\ jobs' = reload_schedules(<<>>, others, now)
                     /\ reload_result(schedules, now) = reload_result(others, now)]_vars

\* a step of the executor: an invocation moves on or returns
ExecutorStep ==
    /\ up'
    /\ \E i \in InvIds : i \notin DOMAIN inv' \/ inv'[i].pc # inv[i].pc

\* C33: a step of the executor keeps every record and changes at most the
\* lease, last_run and, for a one-time schedule, is_active (to false) and
\* completed_at; contact, message and fire spec stay as they are, and so does
\* the is_active of a recurring schedule: a toggle made while an execution was
\* in flight is still in effect when that execution has completed.
C33_TargetedUpdates ==
    [][ExecutorStep =>
         /\ DOMAIN schedules' = Stored
         /\ \A s \in Stored :
              LET old == schedules[s]
                  new == schedules'[s]
              IN /\ new = [old EXCEPT !.executing = new.executing,
                                      !.last_run = new.last_run,
                                      !.is_active = new.is_active,
                                      !.completed_at = new.completed_at]
                 /\ old.schedule_type = "recurring" =>
                       /\ new.is_active = old.is_active
                       /\ new.completed_at = old.completed_at
                 /\ old.schedule_type = "once" =>
                       /\ new.is_active # old.is_active => ~new.is_active
                       /\ new.completed_at # old.completed_at =>
                             (~new.is_active /\ new.completed_at = new.last_run)]_vars

\* C33 witness: a recurring schedule was deactivated after an invocation had
\* claimed it; the invocation has written its update and the schedule is
\* still inactive
C33_Witness ==
    \E i \in InvIds :
        /\ inv[i].pc = "notify" /\ inv[i].sid \in Stored
        /\ schedules[inv[i].sid].schedule_type = "recurring"
        /\ ~schedules[inv[i].sid].is_active
        /\ schedules[inv[i].sid].last_run = inv[i].now
        /\ schedules[inv[i].sid].executing = NULL

\* the order of the steps inside the try block, and the way out through the
\* error handler
StepOrder ==
    { <<"claim", "send">>, <<"send", "log">>, <<"log", "update">>,
      <<"update", "notify">>,
      <<"claim", "cleanup">>, <<"log", "cleanup">>, <<"update", "cleanup">> }

\* C34: an invocation goes through claim, send, log, update-and-release and
\* notify in this order: it starts at its claim; it calls the gateway only
\* after its claim has succeeded; it appends its log entry only with the
\* result the gateway client returned to it; and the update step, which
\* releases the lease on the normal path, runs only after the log entry has
\* been appended.
C34_StepOrder ==
    [][/\ \A i \in DOMAIN inv' \ InvIds :
            inv'[i].pc = "claim" /\ inv'[i].claim = "none" /\ inv'[i].logged = 0
       /\ \A i \in InvIds :
            /\ (i \in DOMAIN inv' /\ inv'[i].pc # inv[i].pc)
                 => <<inv[i].pc, inv'[i].pc>> \in StepOrder
            /\ Returns(i) => inv[i].pc \in {"claim", "notify", "cleanup"}
            /\ (inv[i].pc = "send" /\ i \in DOMAIN inv' /\ inv'[i].pc = "log")
                 => /\ inv[i].claim = "won" /\ inv[i].logged = 0
                    /\ inv[i].res = NoResult /\ inv'[i].res # NoResult
                    /\ logs' = logs /\ schedules' = schedules
            /\ (i \in DOMAIN inv' /\ inv'[i].logged # inv[i].logged)
                 => /\ inv[i].pc = "log" /\ inv'[i].pc = "update"
                    /\ inv[i].res # NoResult
                    /\ logs' = logs (+) SetToBag({LogDoc(i)})
                    /\ schedules' = schedules
            /\ (inv[i].pc = "update" /\ i \in DOMAIN inv' /\ inv'[i].pc = "notify")
                 => /\ inv[i].logged = 1
                    /\ logs' = logs]_vars

\* C34 witness: an invocation started by a test run is at its notification
\* step: its claim succeeded, its entry is in the log, and its lease is
\* released with last_run at the claim time; no store operation has failed
C34_Witness ==
    /\ faults = 0 /\ crashes = 0
    /\ \E i \in InvIds :
         /\ inv[i].src = "route" /\ inv[i].pc = "notify"
         /\ inv[i].claim = "won" /\ inv[i].logged = 1
         /\ inv[i].sid \in Stored
         /\ schedules[inv[i].sid].executing = NULL
         /\ schedules[inv[i].sid].last_run = inv[i].now
         /\ \E d \in BagToSet(logs) : d.scheduled_message_id = inv[i].sid

\* C35: the executor never raises to its caller.  Whatever fails, a store
\* operation of the claim, of the log step or of the update step, the
\* invocation goes to its error handler and nowhere else; the error handler
\* is one step that ends the invocation whether its write is accepted or
\* raises; and a caller that waits for the invocation, the test run, is
\* answered 200 and never with a server error.
C35_NeverRaises ==
    [][/\ reply'.status # 500
       /\ \A i \in InvIds :
            /\ (up' /\ faults' = faults + 1 /\ inv[i].pc \in {"claim", "log", "update"}
                  /\ (i \notin DOMAIN inv' \/ inv'[i].pc # inv[i].pc))
                 => (i \in DOMAIN inv' /\ inv'[i].pc = "cleanup")
            /\ (up' /\ inv[i].pc = "cleanup"
                  /\ (i \notin DOMAIN inv' \/ inv'[i] # inv[i]))
                 => /\ Returns(i)
                    /\ inv[i].src = "route" => reply' = TestRunReply(inv[i].sid)
                    /\ logs' = logs /\ jobs' = jobs]_vars

\* C35 witness: the log insert of a test run raised and the write of its
\* error handler raised as well; the caller was answered 200 and the lease
\* is left behind
C35_Witness ==
    /\ reply = TestRunReply(reply.id)
    /\ faults = 2 /\ started = 1 /\ inv = <<>> /\ up /\ crashes = 0
    /\ logs = EmptyBag
    /\ reply.id \in Stored
    /\ schedules[reply.id].executing \notin {ABSENT, NULL}

\* C36: a get_database call made while the store is reachable returns a
\* database handle, never None, also when the store was unreachable while
\* init_database ran at startup.
C36_RetryAfterStartup ==
    (reply.op = "get-database" /\ reply.reachable)
      => (reply.status = 200 /\ reply.returns = Database)

\* C37: only the holder releases a lease: a step of an invocation that sets
\* a lease to null overwrites the lease this invocation took with its own
\* successful claim, and never the lease of another invocation in flight.
C37_OnlyHolderReleases ==
    [][\A i \in InvIds :
         (/\ up' /\ (i \notin DOMAIN inv' \/ inv'[i].pc # inv[i].pc)
          /\ inv[i].sid \in Stored \cap DOMAIN schedules'
          /\ schedules[inv[i].sid].executing \notin {ABSENT, NULL}
          /\ schedules'[inv[i].sid].executing = NULL)
           => /\ inv[i].claim = "won"
              /\ schedules[inv[i].sid].executing = inv[i].now
              /\ ~\E h \in InvIds \ {i} :
                     /\ Holding(h) /\ inv[h].sid = inv[i].sid
                     /\ inv[h].now = schedules[inv[i].sid].executing]_vars

\* C38: last_run never moves backwards: every step that changes the last_run
\* of a schedule stores a time at or after the one stored before.  Stated
\* for the runs in which no store operation has failed.
C38_LastRunMonotonic ==
    [][\A s \in Stored \cap DOMAIN schedules' :
         (faults' = 0 /\ schedules'[s].last_run # schedules[s].last_run)
           => schedules'[s].last_run >= schedules[s].last_run]_vars

\* C39: a one-time schedule that has an entry of a sent message in the log
\* and no execution in flight is inactive and has its completed_at set.
\* Stated for the runs without toggle requests.
C39_LoggedOnceIsCompleted ==
    \A s \in Stored :
        (/\ schedules[s].schedule_type = "once"
         /\ \E d \in BagToSet(logs) :
               d.scheduled_message_id = s /\ d.status = "sent"
         /\ \A i \in InvIds : inv[i].sid # s)
          => /\ ~schedules[s].is_active
             /\ schedules[s].completed_at \notin {ABSENT, NULL}

\* C40: when no toggle request is in flight, a recurring schedule has a
\* trigger registration if and only if its stored is_active is true.
C40_TogglesAgree ==
    toggling = <<>> =>
      \A s \in Stored :
          schedules[s].schedule_type = "recurring"
            => (s \in DOMAIN jobs <=> schedules[s].is_active)

====
